---- MODULE Spec2Model ----
(***************************************************************************)
(* Model of scripts/leap_seconds_generator.py: the ingestion of the IETF   *)
(* leap-seconds list, the UtcClock / GpsClock / UnixClock conversions and  *)
(* the rendering of the utc_leaps table and its expiry markers.            *)
(*                                                                         *)
(* Number representation.  The instants handled by the script are counts   *)
(* of seconds since 1900-01-01 and exceed the 32-bit range of the model    *)
(* checker's integers (2524953600 > 2^31).  A count of seconds v is        *)
(* therefore held as the pair [d, s] with v = d * 86400 + s and            *)
(* 0 <= s < 86400, the same (days, seconds) normal form Python's timedelta *)
(* uses.  The script's values are Python floats holding whole numbers      *)
(* (int + int - float - int); every value representable here is below 2^53 *)
(* in magnitude, where float arithmetic on whole numbers is exact and      *)
(* int() of such a float returns the same whole number.                    *)
(***************************************************************************)
EXTENDS Integers, Sequences, FiniteSets, TLC

\* ------------------------------------------------------------------------
\* Bounds of the model
\* ------------------------------------------------------------------------
MaxLeaps == 3

\* ------------------------------------------------------------------------
\* Numbers: seconds as (days, seconds-of-day)
\* ------------------------------------------------------------------------
SecondsPerDay == 86400
SecondsPerWeek == 604800
DaysPerWeek == SecondsPerWeek \div SecondsPerDay

\* Python's None
None == [none |-> TRUE]

\* the number d * 86400 + s, normalised
Secs(d, s) == [d |-> d + (s \div SecondsPerDay), s |-> s % SecondsPerDay]

\* a + b, a - b on numbers
Plus(a, b) == Secs(a.d + b.d, a.s + b.s)
Minus(a, b) == Secs(a.d - b.d, a.s - b.s)

\* a small Python int as a number
Num(n) == Secs(0, n)

\* a >= 0, a < b on numbers
NonNegative(a) == a.d >= 0
Less(a, b) == a.d < b.d \/ (a.d = b.d /\ a.s < b.s)

\* ------------------------------------------------------------------------
\* datetime: proleptic Gregorian ordinals (day 1 = 0001-01-01)
\* ------------------------------------------------------------------------
MINORDINAL == 1
MAXORDINAL == 3652059

IsLeapYear(y) == y % 4 = 0 /\ (y % 100 # 0 \/ y % 400 = 0)

DaysInMonth(y, m) ==
    IF m = 2 THEN (IF IsLeapYear(y) THEN 29 ELSE 28)
    ELSE IF m \in {4, 6, 9, 11} THEN 30 ELSE 31

RECURSIVE DaysBeforeMonth(_, _)
DaysBeforeMonth(y, m) ==
    IF m = 1 THEN 0 ELSE DaysBeforeMonth(y, m - 1) + DaysInMonth(y, m - 1)

DaysBeforeYear(y) ==
    (y - 1) * 365 + ((y - 1) \div 4) - ((y - 1) \div 100) + ((y - 1) \div 400)

\* datetime.datetime(y, m, d) at midnight, as its ordinal
datetime(y, m, d) == DaysBeforeYear(y) + DaysBeforeMonth(y, m) + d

\* the day, month and year of an ordinal within MINORDINAL..MAXORDINAL
ord2dmy(n) ==
    LET n0   == n - 1
        n400 == n0 \div 146097
        r400 == n0 % 146097
        n100 == r400 \div 36524
        r100 == r400 % 36524
        n4   == r100 \div 1461
        r4   == r100 % 1461
        n1   == r4 \div 365
        r1   == r4 % 365
        year == n400 * 400 + 1 + n100 * 100 + n4 * 4 + n1
    IN  IF n1 = 4 \/ n100 = 4
        THEN [day |-> 31, month |-> 12, year |-> year - 1]
        ELSE LET month == CHOOSE m \in 1..12 :
                            /\ DaysBeforeMonth(year, m) <= r1
                            /\ r1 < DaysBeforeMonth(year, m) + DaysInMonth(year, m)
             IN  [day |-> r1 - DaysBeforeMonth(year, month) + 1,
                  month |-> month, year |-> year]

\* ------------------------------------------------------------------------
\* Module constants (lines 9-13)
\* ------------------------------------------------------------------------
GPS_EPOCH == datetime(1980, 1, 6)
TAI_GPS_OFFSET == 19
TAI_UNIX_OFFSET == 37
UNIX_EPOCH == datetime(1970, 1, 1)
UTC_EPOCH == datetime(1900, 1, 1)

\* (a - b).total_seconds() for two midnights a, b
total_seconds(a, b) == Secs(a - b, 0)

\* ------------------------------------------------------------------------
\* class UtcClock
\* ------------------------------------------------------------------------
UtcClock(utc_time, tai_utc_offset) ==
    [utc_time |-> utc_time, tai_utc_offset |-> tai_utc_offset]

\* the arithmetic of to_gps_clock / to_unix_clock / to_date_string needs a
\* number: a UtcClock built from None raises TypeError when used
Usable(self) == self.utc_time # None

\* class GpsClock, class UnixClock
GpsClock(gps_time) == [gps_time |-> gps_time]
UnixClock(unix_time) == [unix_time |-> unix_time]

\* to_gps_clock with the Unix baseline offset taken for the GPS one
to_gps_clock_unix_offset(self) ==
    GpsClock(Minus(Minus(Plus(self.utc_time, Num(self.tai_utc_offset)),
                         total_seconds(GPS_EPOCH, UTC_EPOCH)),
                   Num(TAI_UNIX_OFFSET)))

to_gps_clock(self) ==
    GpsClock(Minus(Minus(Plus(self.utc_time, Num(self.tai_utc_offset)),
                         total_seconds(GPS_EPOCH, UTC_EPOCH)),
                   Num(TAI_GPS_OFFSET)))

\* to_unix_clock rebased to the GPS epoch instead of the Unix epoch
to_unix_clock_gps_epoch(self) ==
    UnixClock(Minus(Minus(Plus(self.utc_time, Num(self.tai_utc_offset)),
                          total_seconds(GPS_EPOCH, UTC_EPOCH)),
                    Num(TAI_UNIX_OFFSET)))

to_unix_clock(self) ==
    UnixClock(Minus(Minus(Plus(self.utc_time, Num(self.tai_utc_offset)),
                          total_seconds(UNIX_EPOCH, UTC_EPOCH)),
                    Num(TAI_UNIX_OFFSET)))

\* date = UTC_EPOCH + timedelta(0, utc_time); OverflowError outside the
\* years 1..9999
DateInRange(self) ==
    /\ UTC_EPOCH + self.utc_time.d >= MINORDINAL
    /\ UTC_EPOCH + self.utc_time.d <= MAXORDINAL

to_date_string(self) == ord2dmy(UTC_EPOCH + self.utc_time.d)

\* ------------------------------------------------------------------------
\* class GpsClock
\* ------------------------------------------------------------------------
\* wn with the quotient rounded to the nearest integer: round(gps_time / 604800)
wn_rounded(self) ==
    LET t == self.gps_time
        q == t.d \div DaysPerWeek
        r == (t.d % DaysPerWeek) * SecondsPerDay + t.s
    IN  IF 2 * r >= SecondsPerWeek THEN q + 1 ELSE q

\* int(gps_time / 604800): the quotient truncated toward zero
wn(self) ==
    LET t == self.gps_time
        q == t.d \div DaysPerWeek
        r == (t.d % DaysPerWeek) * SecondsPerDay + t.s
    IN  IF t.d < 0 /\ r # 0 THEN q + 1 ELSE q

\* int(gps_time % 604800): Python's % takes the sign of the divisor
tow(self) ==
    LET t == self.gps_time
    IN  (t.d % DaysPerWeek) * SecondsPerDay + t.s

\* int(gps_time)
gps_seconds_since_epoch(self) == self.gps_time

gps_offset_seconds(self, seconds) == GpsClock(Plus(self.gps_time, Num(seconds)))

\* ------------------------------------------------------------------------
\* class UnixClock
\* ------------------------------------------------------------------------
unix_seconds_since_epoch(self) == self.unix_time

\* ------------------------------------------------------------------------
\* Inputs: the data lines and "#@" lines of leap-seconds.list, and the clock
\* ------------------------------------------------------------------------
\* data lines "<seconds since 1900> <TAI-UTC>"
LeapLines ==
    { UtcClock(Secs(25567, 0), 0),        \* 1970-01-01, the Unix epoch
      UtcClock(Secs(26297, 0), 10),       \* 1972-01-01, before the GPS epoch
      UtcClock(Secs(29224, -1), 19),      \* one second before the GPS epoch
      UtcClock(Secs(29224, 0), 19),       \* the GPS epoch itself
      UtcClock(Secs(29224, 1), 20),       \* two GPS seconds after the epoch
      UtcClock(Secs(29231, 0), 19),       \* one week after the GPS epoch
      UtcClock(Secs(29766, 0), 20),       \* 1981-07-01
      UtcClock(Secs(2958464, 0), 37) }    \* 10000-01-01

\* "#@ <seconds since 1900>" lines
ExpiryLines ==
    { Secs(25567, 0),                     \* 1970-01-01
      Secs(29224, 5),                     \* 1980-01-06 00:00:05
      Secs(45834, 0),                     \* 2025-06-28
      Secs(-693596, 0) }                  \* the day before 0001-01-01

\* datetime.datetime.utcnow() - UTC_EPOCH in whole seconds; the reading is
\* printed as the "Updated" date and enters nothing else
NowInstants == { Secs(46326, 79200) }                \* 2026-11-02 22:00:00

\* ------------------------------------------------------------------------
\* State
\* ------------------------------------------------------------------------
VARIABLES
    pc,                               \* position in the script
    exception,                        \* the exception that ended the script
    utc_leap_list,                    \* line 125
    utc_leap_list_expires_utc_time,   \* line 126
    utc_leap_list_expires,            \* line 144
    now,                              \* line 145
    i,                                \* index of utc_leap_item in the for loop
    item_gps_seconds,                 \* value tested on line 48
    updated,                          \* rendered line 31
    rows,                             \* rendered lines 47-51
    expires_date,                     \* rendered lines 54 and 57
    gps_time_utc_leaps_expiry,        \* rendered line 55
    unix_time_utc_leaps_expiry        \* rendered line 58

vars == <<pc, exception, utc_leap_list, utc_leap_list_expires_utc_time,
          utc_leap_list_expires, now, i, item_gps_seconds, updated, rows,
          expires_date, gps_time_utc_leaps_expiry, unix_time_utc_leaps_expiry>>

inputs == <<utc_leap_list, utc_leap_list_expires_utc_time>>
built == <<utc_leap_list_expires, now>>
rendered == <<updated, rows, expires_date, gps_time_utc_leaps_expiry,
              unix_time_utc_leaps_expiry>>

Init ==
    /\ pc = "read"
    /\ exception = "none"
    /\ utc_leap_list = <<>>
    /\ utc_leap_list_expires_utc_time = None
    /\ utc_leap_list_expires = None
    /\ now = None
    /\ i = 0
    /\ item_gps_seconds = None
    /\ updated = None
    /\ rows = <<>>
    /\ expires_date = None
    /\ gps_time_utc_leaps_expiry = None
    /\ unix_time_utc_leaps_expiry = None

\* ------------------------------------------------------------------------
\* Lines 128-142: reading leap-seconds.list
\* ------------------------------------------------------------------------
\* a "#@" line: line 140
ReadExpiry(t) ==
    /\ pc = "read"
    /\ utc_leap_list_expires_utc_time' = t
    /\ UNCHANGED <<pc, exception, utc_leap_list, built, i, item_gps_seconds,
                   rendered>>

\* a data line: line 142
ReadLeap(e) ==
    /\ pc = "read"
    /\ Len(utc_leap_list) < MaxLeaps
    /\ utc_leap_list' = Append(utc_leap_list, e)
    /\ UNCHANGED <<pc, exception, utc_leap_list_expires_utc_time, built, i,
                   item_gps_seconds, rendered>>

\* ------------------------------------------------------------------------
\* Lines 144-145: the expiry and generation instants
\* ------------------------------------------------------------------------
\* the offset of the first event instead of the last: utc_leap_list[0]
FirstTaiUtcOffset(list) == list[1].tai_utc_offset

\* utc_leap_list[-1].tai_utc_offset()
LastTaiUtcOffset(list) == list[Len(list)].tai_utc_offset

\* utc_leap_list[-1] of an empty list raises IndexError
BuildFail ==
    /\ pc = "read"
    /\ Len(utc_leap_list) = 0
    /\ pc' = "failed"
    /\ exception' = "IndexError"
    /\ UNCHANGED <<inputs, built, i, item_gps_seconds, rendered>>

\* Build with the expiry instant left out of the expiry UtcClock
Build_without_expiry(t) ==
    /\ pc = "read"
    /\ Len(utc_leap_list) > 0
    /\ utc_leap_list_expires' = UtcClock(None, LastTaiUtcOffset(utc_leap_list))
    /\ now' = UtcClock(t, LastTaiUtcOffset(utc_leap_list))
    /\ pc' = "header"
    /\ UNCHANGED <<exception, inputs, i, item_gps_seconds, rendered>>

Build(t) ==
    /\ pc = "read"
    /\ Len(utc_leap_list) > 0
    /\ utc_leap_list_expires' =
           UtcClock(utc_leap_list_expires_utc_time, LastTaiUtcOffset(utc_leap_list))
    /\ now' = UtcClock(t, LastTaiUtcOffset(utc_leap_list))
    /\ pc' = "header"
    /\ UNCHANGED <<exception, inputs, i, item_gps_seconds, rendered>>

\* ------------------------------------------------------------------------
\* Lines 147-153: rendering JINJA_GNSS_TIME_LATEST_TEMPLATE
\* ------------------------------------------------------------------------
\* line 31
RenderHeader ==
    /\ pc = "header"
    /\ updated' = to_date_string(now)
    /\ i' = 1
    /\ pc' = "loop"
    /\ UNCHANGED <<exception, inputs, built, item_gps_seconds, rows,
                   expires_date, gps_time_utc_leaps_expiry,
                   unix_time_utc_leaps_expiry>>

\* LoopTest with the test made on the value shifted by -1 second
LoopTest_after_shift ==
    /\ pc = "loop"
    /\ i <= Len(utc_leap_list)
    /\ LET seconds == gps_seconds_since_epoch(
                          gps_offset_seconds(to_gps_clock(utc_leap_list[i]), -1))
       IN  /\ item_gps_seconds' = seconds
           /\ IF NonNegative(seconds)
              THEN pc' = "row" /\ i' = i
              ELSE pc' = "loop" /\ i' = i + 1
    /\ UNCHANGED <<exception, inputs, built, rendered>>

\* lines 47-48: the next utc_leap_item and its test
LoopTest ==
    /\ pc = "loop"
    /\ i <= Len(utc_leap_list)
    /\ LET seconds == gps_seconds_since_epoch(to_gps_clock(utc_leap_list[i]))
       IN  /\ item_gps_seconds' = seconds
           /\ IF NonNegative(seconds)
              THEN pc' = "row" /\ i' = i
              ELSE pc' = "loop" /\ i' = i + 1
    /\ UNCHANGED <<exception, inputs, built, rendered>>

\* RowOf without the -1 second shift
RowOf_unshifted(utc_leap_item) ==
    [wn      |-> wn(to_gps_clock(utc_leap_item)),
     tow     |-> tow(to_gps_clock(utc_leap_item)),
     gps_utc |-> utc_leap_item.tai_utc_offset - TAI_GPS_OFFSET,
     date    |-> to_date_string(utc_leap_item)]

\* line 49: the row of utc_leap_item
RowOf(utc_leap_item) ==
    [wn      |-> wn(gps_offset_seconds(to_gps_clock(utc_leap_item), -1)),
     tow     |-> tow(gps_offset_seconds(to_gps_clock(utc_leap_item), -1)),
     gps_utc |-> utc_leap_item.tai_utc_offset - TAI_GPS_OFFSET,
     date    |-> to_date_string(utc_leap_item)]

RenderRowFail ==
    /\ pc = "row"
    /\ ~DateInRange(utc_leap_list[i])
    /\ pc' = "failed"
    /\ exception' = "OverflowError"
    /\ UNCHANGED <<inputs, built, i, item_gps_seconds, rendered>>

\* RenderRow with the new row put before the rows already rendered
RenderRow_prepending ==
    /\ pc = "row"
    /\ DateInRange(utc_leap_list[i])
    /\ rows' = <<RowOf(utc_leap_list[i])>> \o rows
    /\ i' = i + 1
    /\ pc' = "loop"
    /\ UNCHANGED <<exception, inputs, built, item_gps_seconds, updated,
                   expires_date, gps_time_utc_leaps_expiry,
                   unix_time_utc_leaps_expiry>>

RenderRow ==
    /\ pc = "row"
    /\ DateInRange(utc_leap_list[i])
    /\ rows' = Append(rows, RowOf(utc_leap_list[i]))
    /\ i' = i + 1
    /\ pc' = "loop"
    /\ UNCHANGED <<exception, inputs, built, item_gps_seconds, updated,
                   expires_date, gps_time_utc_leaps_expiry,
                   unix_time_utc_leaps_expiry>>

\* line 51: the loop is exhausted
LoopEnd ==
    /\ pc = "loop"
    /\ i > Len(utc_leap_list)
    /\ pc' = "expiry"
    /\ UNCHANGED <<exception, inputs, built, i, item_gps_seconds, rendered>>

\* lines 54-58 with no "#@" line read (None) or a date outside years 1..9999
RenderExpiryFail ==
    /\ pc = "expiry"
    /\ IF Usable(utc_leap_list_expires)
       THEN ~DateInRange(utc_leap_list_expires)
       ELSE TRUE
    /\ pc' = "failed"
    /\ exception' = IF ~Usable(utc_leap_list_expires)
                    THEN "TypeError" ELSE "OverflowError"
    /\ UNCHANGED <<inputs, built, i, item_gps_seconds, rendered>>

\* lines 54-58
RenderExpiry ==
    /\ pc = "expiry"
    /\ Usable(utc_leap_list_expires)
    /\ DateInRange(utc_leap_list_expires)
    /\ expires_date' = to_date_string(utc_leap_list_expires)
    /\ gps_time_utc_leaps_expiry' =
           [wn  |-> wn(to_gps_clock(utc_leap_list_expires)),
            tow |-> tow(to_gps_clock(utc_leap_list_expires))]
    /\ unix_time_utc_leaps_expiry' =
           unix_seconds_since_epoch(to_unix_clock(utc_leap_list_expires))
    /\ pc' = "write"
    /\ UNCHANGED <<exception, inputs, built, i, item_gps_seconds, updated, rows>>

\* lines 155-156: the rendering is written to the header file
WriteFile ==
    /\ pc = "write"
    /\ pc' = "done"
    /\ UNCHANGED <<exception, inputs, built, i, item_gps_seconds, rendered>>

Next ==
    \/ \E t \in ExpiryLines : ReadExpiry(t)
    \/ \E e \in LeapLines : ReadLeap(e)
    \/ BuildFail
    \/ \E t \in NowInstants : Build(t)
    \/ RenderHeader
    \/ LoopTest
    \/ RenderRowFail
    \/ RenderRow
    \/ LoopEnd
    \/ RenderExpiryFail
    \/ RenderExpiry
    \/ WriteFile

Spec == Init /\ [][Next]_vars

\* the header file has been written
Emitted == pc = "done"

\* the script can take its next step
CanStep ==
    /\ pc = "header" => ENABLED RenderHeader
    /\ pc = "loop" => ENABLED (LoopTest \/ LoopEnd)
    /\ pc = "row" => ENABLED (RenderRow \/ RenderRowFail)
    /\ pc = "expiry" => ENABLED (RenderExpiry \/ RenderExpiryFail)
    /\ pc = "write" => ENABLED WriteFile

\* ------------------------------------------------------------------------
\* Values the specification states, written without the script's operators
\* ------------------------------------------------------------------------
\* utc_seconds + tai_utc_offset - 2524953600 - 19, 2524953600 = 29224 * 86400
StatedGpsSeconds(utc_seconds, tai_utc_offset) ==
    Secs(utc_seconds.d - 29224, utc_seconds.s + tai_utc_offset - 19)

\* utc_seconds + tai_utc_offset - 2208988800 - 37, 2208988800 = 25567 * 86400
StatedUnixSeconds(utc_seconds, tai_utc_offset) ==
    Secs(utc_seconds.d - 25567, utc_seconds.s + tai_utc_offset - 37)

\* wn * 604800 + tow
WeekValue(w, t) == Secs(w * 7, t)

\* the event's GPS seconds-since-epoch before the -1 second adjustment
EventGps(e) == StatedGpsSeconds(e.utc_time, e.tai_utc_offset)
HasNonNegativeGps(e) == EventGps(e).d >= 0

\* the input events with non-negative GPS seconds, in input order
Passing(list) == SelectSeq(list, HasNonNegativeGps)

\* the first n events of the list
Prefix(list, n) == SubSeq(list, 1, n)

\* the (wn, tow, off) fields of a rendered row
Fields(row) == <<row.wn, row.tow, row.gps_utc>>

\* ------------------------------------------------------------------------
\* C1: to_gps_clock().seconds_since_epoch() of every leap event the loop has
\* tested equals utc_seconds + tai_utc_offset - 2524953600 - 19.
\* ------------------------------------------------------------------------
C1_ToGpsClock ==
    /\ pc = "row" => item_gps_seconds = EventGps(utc_leap_list[i])
    /\ (pc = "loop" /\ i > 1) => item_gps_seconds = EventGps(utc_leap_list[i - 1])

\* an event after the GPS epoch and an event before it have been converted
C1_Witness ==
    /\ pc = "loop"
    /\ i = 3
    /\ utc_leap_list[1] = UtcClock(Secs(29766, 0), 20)
    /\ utc_leap_list[2] = UtcClock(Secs(26297, 0), 10)
    /\ item_gps_seconds = Secs(-2928, 86391)

\* ------------------------------------------------------------------------
\* C2: to_unix_clock().seconds_since_epoch() of the expiry UtcClock equals
\* utc_seconds + tai_utc_offset - 2208988800 - 37; for the Unix epoch itself
\* with tai_utc_offset 0 it is -37.
\* ------------------------------------------------------------------------
C2_ToUnixClock ==
    Emitted =>
        LET u == utc_leap_list_expires
            x == unix_time_utc_leaps_expiry
        IN  /\ x = StatedUnixSeconds(u.utc_time, u.tai_utc_offset)
            /\ (u.utc_time.d = 25567 /\ u.utc_time.s = 0 /\ u.tai_utc_offset = 0)
                   => x.d * 86400 + x.s = -37

\* the Unix epoch with offset 0 has been converted
C2_Witness ==
    /\ Emitted
    /\ utc_leap_list_expires = UtcClock(Secs(25567, 0), 0)
    /\ unix_time_utc_leaps_expiry = Secs(-1, 86363)

\* ------------------------------------------------------------------------
\* C3: for GPS seconds S >= 0, wn() * 604800 + tow() = S and
\* 0 <= tow() < 604800.  wn() and tow() are applied to the expiry instant's
\* GPS seconds and to each row's GPS seconds minus one.
\* ------------------------------------------------------------------------
C3_Decomposes(S, w, t) ==
    S.d >= 0 => (WeekValue(w, t) = S /\ 0 <= t /\ t < 604800)

C3_WeekDecomposition ==
    /\ Emitted =>
           C3_Decomposes(StatedGpsSeconds(utc_leap_list_expires.utc_time,
                                          utc_leap_list_expires.tai_utc_offset),
                         gps_time_utc_leaps_expiry.wn,
                         gps_time_utc_leaps_expiry.tow)
    /\ (pc = "loop" /\ i > 1 /\ item_gps_seconds.d >= 0) =>
           C3_Decomposes(Secs(item_gps_seconds.d, item_gps_seconds.s - 1),
                         rows[Len(rows)].wn, rows[Len(rows)].tow)

\* an expiry instant in GPS week 2372 and the 1981 row of week 77 are emitted
C3_Witness ==
    /\ Emitted
    /\ gps_time_utc_leaps_expiry = [wn |-> 2372, tow |-> 518401]
    /\ Len(rows) = 1
    /\ Fields(rows[1]) = <<77, 259200, 1>>

\* ------------------------------------------------------------------------
\* C4: a row is emitted for a leap event iff its GPS seconds before the -1
\* adjustment are >= 0; the number of rows is the number of such events.
\* ------------------------------------------------------------------------
C4_RowIffNonNegative ==
    /\ pc = "row" =>
           /\ HasNonNegativeGps(utc_leap_list[i])
           /\ Len(rows) = Len(Passing(Prefix(utc_leap_list, i - 1)))
    /\ pc = "loop" =>
           Len(rows) = Len(Passing(Prefix(utc_leap_list, i - 1)))
    /\ Emitted => Len(rows) = Len(Passing(utc_leap_list))

\* a table from one event before, one at and one after the GPS epoch
C4_Witness ==
    /\ Emitted
    /\ Len(utc_leap_list) = 3
    /\ EventGps(utc_leap_list[1]) = Secs(-1, 86399)
    /\ EventGps(utc_leap_list[2]) = Secs(0, 0)
    /\ EventGps(utc_leap_list[3]) = Secs(0, 2)
    /\ Len(rows) = 2

\* the row the specification states for an event: the Euclidean
\* decomposition of its GPS seconds minus one
IsDecompositionOf(row, e) ==
    /\ WeekValue(row.wn, row.tow) = Secs(EventGps(e).d, EventGps(e).s - 1)
    /\ 0 <= row.tow
    /\ row.tow <= 604799

\* ------------------------------------------------------------------------
\* C5: every emitted row satisfies wn * 604800 + tow = g - 1 and
\* 0 <= tow <= 604799 for the GPS seconds g of its event, g = 0 included.
\* ------------------------------------------------------------------------
C5_RowsAreEuclidean ==
    Emitted =>
        \A k \in 1..Len(rows) :
            k <= Len(Passing(utc_leap_list)) =>
                IsDecompositionOf(rows[k], Passing(utc_leap_list)[k])

\* ------------------------------------------------------------------------
\* C6: the fields of each emitted row are wn() and tow() of the event's GPS
\* value shifted by -1 second, and the event's own tai_utc_offset - 19.
\* ------------------------------------------------------------------------
C6_RowFields ==
    Emitted =>
        /\ Len(rows) = Len(Passing(utc_leap_list))
        /\ \A k \in 1..Len(rows) :
               LET e == Passing(utc_leap_list)[k]
                   shifted == GpsClock(Secs(EventGps(e).d, EventGps(e).s - 1))
               IN  Fields(rows[k]) = <<wn(shifted), tow(shifted),
                                       e.tai_utc_offset - 19>>

\* two rows with different offsets, the second at a week boundary
C6_Witness ==
    /\ Emitted
    /\ Len(rows) = 2
    /\ Fields(rows[1]) = <<77, 259200, 1>>
    /\ Fields(rows[2]) = <<0, 604799, 0>>
    /\ Len(utc_leap_list) = 3

\* ------------------------------------------------------------------------
\* C7: the expiry markers are those of E + L - 2524953600 - 19 (week and
\* time of week, no -1 adjustment) and E + L - 2208988800 - 37, L being the
\* TAI-UTC offset of the last event of the input sequence.
\* ------------------------------------------------------------------------
C7_ExpiryUsesLastOffset ==
    Emitted =>
        LET E == utc_leap_list_expires_utc_time
            L == utc_leap_list[Len(utc_leap_list)].tai_utc_offset
            G == GpsClock(StatedGpsSeconds(E, L))
        IN  /\ gps_time_utc_leaps_expiry = [wn |-> wn(G), tow |-> tow(G)]
            /\ unix_time_utc_leaps_expiry = StatedUnixSeconds(E, L)

\* the earlier events carry other offsets than the last one
C7_Witness ==
    /\ Emitted
    /\ Len(utc_leap_list) = 3
    /\ utc_leap_list[1].tai_utc_offset = 10
    /\ utc_leap_list[2].tai_utc_offset = 19
    /\ utc_leap_list[3].tai_utc_offset = 20
    /\ utc_leap_list_expires_utc_time = Secs(45834, 0)
    /\ gps_time_utc_leaps_expiry = [wn |-> 2372, tow |-> 518401]

\* ------------------------------------------------------------------------
\* C8: the emitted rows are, in order, the rows of the input events that
\* pass the non-negative-GPS-seconds filter.
\* ------------------------------------------------------------------------
C8_RowsInInputOrder ==
    Emitted =>
        rows = [k \in 1..Len(Passing(utc_leap_list)) |->
                    RowOf(Passing(utc_leap_list)[k])]

\* a table from events out of time order, one of them filtered
C8_Witness ==
    /\ Emitted
    /\ Len(utc_leap_list) = 3
    /\ utc_leap_list[1].utc_time = Secs(29766, 0)
    /\ utc_leap_list[2].utc_time = Secs(26297, 0)
    /\ utc_leap_list[3].utc_time = Secs(29224, 1)
    /\ Len(rows) = 2
    /\ Fields(rows[1]) = <<77, 259200, 1>>
    /\ Fields(rows[2]) = <<0, 1, 1>>

\* ------------------------------------------------------------------------
\* Shapes of input the specification calls malformed or out of order
\* ------------------------------------------------------------------------
\* UTC instants strictly ascending, TAI-UTC offsets non-decreasing
Ascending(list) ==
    \A k \in 1..(Len(list) - 1) :
        /\ Less(list[k].utc_time, list[k + 1].utc_time)
        /\ list[k].tai_utc_offset <= list[k + 1].tai_utc_offset

NonMonotonic(list) ==
    \E k \in 1..(Len(list) - 1) : ~Less(list[k].utc_time, list[k + 1].utc_time)

ExpiryPrecedesLastLeap ==
    /\ Len(utc_leap_list) > 0
    /\ utc_leap_list_expires_utc_time # None
    /\ Less(utc_leap_list_expires_utc_time,
            utc_leap_list[Len(utc_leap_list)].utc_time)

Malformed ==
    \/ Len(utc_leap_list) = 0
    \/ NonMonotonic(utc_leap_list)
    \/ ExpiryPrecedesLastLeap

\* an instant whose calendar date lies within the years 1..9999
Representable(t) == t.d >= -693595 /\ t.d <= 2958463

\* a "#@" line was read and every date the template prints is representable
Printable ==
    /\ utc_leap_list_expires_utc_time # None
    /\ Representable(utc_leap_list_expires_utc_time)
    /\ \A k \in 1..Len(utc_leap_list) :
           HasNonNegativeGps(utc_leap_list[k]) =>
               Representable(utc_leap_list[k].utc_time)

\* ------------------------------------------------------------------------
\* C9 as stated: on malformed or out-of-order input (a non-monotonic or
\* empty leap-event sequence, an expiry instant preceding the last event)
\* the script never raises.
\* ------------------------------------------------------------------------
C9_NeverRaises == Malformed => exception = "none"

\* ------------------------------------------------------------------------
\* C9 as amended: on a non-empty leap-event sequence, in or out of order,
\* with an expiry instant before or after the last event and all printed
\* dates within the years 1..9999, the script raises nothing, is never stuck
\* before the header is written, and writes the rows and expiry markers the
\* arithmetic yields; on an empty sequence it raises IndexError and writes
\* nothing.
\* ------------------------------------------------------------------------
C9_RaisesOnlyOnEmptyList ==
    /\ (Len(utc_leap_list) > 0 /\ Printable) =>
           /\ exception = "none"
           /\ pc # "failed"
           /\ CanStep
    /\ exception = "IndexError" <=> (pc = "failed" /\ Len(utc_leap_list) = 0)
    /\ (pc \in {"read", "failed"} /\ Len(utc_leap_list) = 0) =>
           (rows = <<>> /\ gps_time_utc_leaps_expiry = None
                        /\ unix_time_utc_leaps_expiry = None)
    /\ Emitted =>
           /\ Len(utc_leap_list) > 0
           /\ Len(rows) = Len(Passing(utc_leap_list))
           /\ gps_time_utc_leaps_expiry # None
           /\ unix_time_utc_leaps_expiry # None

\* a table written from events out of time order and an expiry instant that
\* precedes the last event
C9_Witness ==
    /\ Emitted
    /\ NonMonotonic(utc_leap_list)
    /\ ExpiryPrecedesLastLeap
    /\ Len(rows) = 2

\* ------------------------------------------------------------------------
\* C10: for strictly ascending UTC instants and non-decreasing TAI-UTC
\* offsets the emitted rows are strictly increasing in wn * 604800 + tow,
\* and every emitted wn is >= 0.
\* ------------------------------------------------------------------------
C10_RowsStrictlyIncreasing ==
    (Emitted /\ Ascending(utc_leap_list)) =>
        /\ \A k \in 1..(Len(rows) - 1) :
               Less(WeekValue(rows[k].wn, rows[k].tow),
                    WeekValue(rows[k + 1].wn, rows[k + 1].tow))
        /\ \A k \in 1..Len(rows) : rows[k].wn >= 0

====
